---- MODULE Spec2Model ----
(***************************************************************************)
(* Docking scheduler of spectraMissionControl (src/backend).               *)
(*                                                                         *)
(* DOCKING_PORTS is the process-wide schedule (docking_rules.py); the      *)
(* operations on it are process_docking_request (docking_logic.py) and     *)
(* the clear_schedule handler (app.py).  Spec runs the handlers one at a   *)
(* time, each to completion.                                               *)
(***************************************************************************)
EXTENDS Integers, Sequences, FiniteSets, TLC

\* ------------------------------------------------------------------------
\* Bounds of the model
\* ------------------------------------------------------------------------
\* instants of the timeline are 0..MaxTime
MaxTime == 3
\* process_docking_request is not started once this many missions are stored
MaxMissions == 2
\* instants of the schedules SpecProbe and SpecPair start from, and of
\* SpecPair's requests, are 0..ProbeMaxTime
ProbeMaxTime == 2
\* instants of the requests of SpecConc are 0..ConcMaxTime
ConcMaxTime == 2

\* ------------------------------------------------------------------------
\* Static configuration (docking_rules.py)
\* ------------------------------------------------------------------------
Ports == {"A1", "A2", "B1"}

\* iteration order of the DOCKING_PORTS dict (insertion order)
PortOrder == <<"A1", "A2", "B1">>

\* PORT_RULES whose A1 entry lists no fallback port
PORT_RULES_NoFallback ==
    [p \in Ports |->
        CASE p = "A1" -> [can_dock |-> <<"A1">>, refuel |-> TRUE]
          [] p = "A2" -> [can_dock |-> <<"A2", "B1">>, refuel |-> FALSE]
          [] p = "B1" -> [can_dock |-> <<"B1">>, refuel |-> FALSE]]

PORT_RULES ==
    [p \in Ports |->
        CASE p = "A1" -> [can_dock |-> <<"A1", "B1">>, refuel |-> TRUE]
          [] p = "A2" -> [can_dock |-> <<"A2", "B1">>, refuel |-> FALSE]
          [] p = "B1" -> [can_dock |-> <<"B1">>, refuel |-> FALSE]]

\* ------------------------------------------------------------------------
\* Mission records handed to process_docking_request
\* ------------------------------------------------------------------------
\* a requested_port the parser may produce that PORT_RULES does not hold
UnknownPort == "B2"
RequestPorts == Ports \cup {UnknownPort}

MissionIds == {"M1", "M2"}
Teams == {"T1"}

Instants == 0..MaxTime

\* An ISO 8601 string "....Z" of instant n, and a string fromisoformat refuses.
IsoString(n) == [text |-> "iso", instant |-> n]
Garbage == [text |-> "garbage", instant |-> 0]
TimeStrings == {IsoString(n) : n \in Instants} \cup {Garbage}

Requests ==
    [mission_id : MissionIds,
     requested_port : RequestPorts,
     start_time : TimeStrings,
     end_time : TimeStrings,
     team : Teams,
     refueling_required : BOOLEAN]

\* ------------------------------------------------------------------------
\* docking_validation.py
\* ------------------------------------------------------------------------
\* datetime.fromisoformat raises ValueError on a string that is no ISO time
ValueError == -1

parse_time(tstr) == IF tstr.text = "iso" THEN tstr.instant ELSE ValueError

\* Conflicts with mission_start written where mission_end belongs
Conflicts_StartTwice(start, end, m) ==
    ~(end <= m.start_time \/ start >= m.start_time)

\* Conflicts with the comparisons of closed intervals
Conflicts_Closed(start, end, m) ==
    ~(end < m.start_time \/ start > m.end_time)

\* the test of is_port_free's loop body, for one stored mission
Conflicts(start, end, m) == ~(end <= m.start_time \/ start >= m.end_time)

\* is_port_free that tests the last stored mission only
is_port_free_LastOnly(dp, port, start, end) ==
    Len(dp[port]) = 0
    \/ ~Conflicts(start, end, dp[port][Len(dp[port])])

is_port_free(dp, port, start, end) ==
    \A i \in 1..Len(dp[port]) : ~Conflicts(start, end, dp[port][i])

\* can_refuel that never looks at the port's refuel flag
can_refuel_Always(requested_port, refueling_required) == TRUE

\* called with a requested_port that is a key of PORT_RULES
can_refuel(requested_port, refueling_required) ==
    IF refueling_required THEN PORT_RULES[requested_port].refuel ELSE TRUE

\* ------------------------------------------------------------------------
\* docking_logic.py
\* ------------------------------------------------------------------------
NoPort == "-"

Accepted(p) == [status |-> "accepted", assigned_port |-> p, reason |-> ""]
\* a rejection that drops its reason
Rejected_NoReason(r) ==
    [status |-> "rejected", assigned_port |-> NoPort, reason |-> ""]

Rejected(r) == [status |-> "rejected", assigned_port |-> NoPort, reason |-> r]
\* an exception leaves process_docking_request; the endpoint answers 500
Raised(e) == [status |-> "error", assigned_port |-> NoPort, reason |-> e]

RefuelReason == "Refueling only available at A1"
NoPortReason == "No compatible ports available"

\* mission_to_store built as a copy of the whole request
StoredMission_WholeRequest(m, start, end) ==
    [mission_id |-> m.mission_id, start_time |-> start,
     end_time |-> end, team |-> m.team,
     requested_port |-> m.requested_port,
     refueling_required |-> m.refueling_required]

StoredMission(m, start, end) ==
    [mission_id |-> m.mission_id, start_time |-> start,
     end_time |-> end, team |-> m.team]

\* assign_port with insert(0, ...) for append
assign_port_Prepend(dp, port, rec) == [dp EXCEPT ![port] = <<rec>> \o @]

\* assign_port on a schedule whose ports share one list object
assign_port_SharedList(dp, port, rec) ==
    [p \in DOMAIN dp |-> Append(dp[p], rec)]

assign_port(dp, port, rec) == [dp EXCEPT ![port] = Append(@, rec)]

\* the loop walking compatible_ports from its last element
RECURSIVE CandidateSearch_Reversed(_, _, _, _, _, _)
CandidateSearch_Reversed(dp, m, start, end, compatible_ports, i) ==
    IF i > Len(compatible_ports)
    THEN [result |-> Rejected(NoPortReason), ports |-> dp]
    ELSE LET port == compatible_ports[Len(compatible_ports) + 1 - i]
         IN  IF is_port_free(dp, port, start, end)
             THEN [result |-> Accepted(port),
                   ports |-> assign_port(dp, port,
                                         StoredMission(m, start, end))]
             ELSE CandidateSearch_Reversed(dp, m, start, end,
                                           compatible_ports, i + 1)

\* the loop giving up after its first candidate
CandidateSearch_FirstOnly(dp, m, start, end, compatible_ports, i) ==
    IF is_port_free(dp, compatible_ports[i], start, end)
    THEN [result |-> Accepted(compatible_ports[i]),
          ports |-> assign_port(dp, compatible_ports[i],
                                StoredMission(m, start, end))]
    ELSE [result |-> Rejected(NoPortReason), ports |-> dp]

\* the loop refusing a mission_id that some port already holds
RECURSIVE CandidateSearch_UniqueIds(_, _, _, _, _, _)
CandidateSearch_UniqueIds(dp, m, start, end, compatible_ports, i) ==
    IF \E p \in DOMAIN dp : \E k \in 1..Len(dp[p]) :
           dp[p][k].mission_id = m.mission_id
    THEN [result |-> Rejected(NoPortReason), ports |-> dp]
    ELSE IF i > Len(compatible_ports)
    THEN [result |-> Rejected(NoPortReason), ports |-> dp]
    ELSE IF is_port_free(dp, compatible_ports[i], start, end)
         THEN [result |-> Accepted(compatible_ports[i]),
               ports |-> assign_port(dp, compatible_ports[i],
                                     StoredMission(m, start, end))]
         ELSE CandidateSearch_UniqueIds(dp, m, start, end,
                                        compatible_ports, i + 1)

\* the for loop over compatible_ports, from its i-th element on
RECURSIVE CandidateSearch(_, _, _, _, _, _)
CandidateSearch(dp, m, start, end, compatible_ports, i) ==
    IF i > Len(compatible_ports)
    THEN [result |-> Rejected(NoPortReason), ports |-> dp]
    ELSE IF is_port_free(dp, compatible_ports[i], start, end)
         THEN [result |-> Accepted(compatible_ports[i]),
               ports |-> assign_port(dp, compatible_ports[i],
                                     StoredMission(m, start, end))]
         ELSE CandidateSearch(dp, m, start, end, compatible_ports, i + 1)

NoResult == [status |-> "none", assigned_port |-> NoPort, reason |-> ""]

\* process_docking_request up to its loop: the exception or the rejection
\* that ends the call there, NoResult when the loop is entered.  An unknown
\* requested_port raises KeyError in can_refuel (refueling_required) or at
\* the lookup of can_dock (otherwise).
Entry(m) ==
    LET start == parse_time(m.start_time)
        end == parse_time(m.end_time)
    IN  IF start = ValueError \/ end = ValueError
        THEN Raised("ValueError")
        ELSE IF m.requested_port \notin DOMAIN PORT_RULES
        THEN Raised("KeyError")
        ELSE IF ~can_refuel(m.requested_port, m.refueling_required)
        THEN Rejected(RefuelReason)
        ELSE NoResult

\* process_docking_request that looks PORT_RULES up with a default port
process_docking_request_DefaultPort(dp, m) ==
    LET d == IF m.requested_port \in DOMAIN PORT_RULES
             THEN m ELSE [m EXCEPT !.requested_port = "B1"]
    IN  IF Entry(d) # NoResult
        THEN [result |-> Entry(d), ports |-> dp]
        ELSE CandidateSearch(dp, d, parse_time(d.start_time),
                             parse_time(d.end_time),
                             PORT_RULES[d.requested_port].can_dock, 1)

\* process_docking_request on the schedule dp: its return value (or the
\* exception it raises) and the schedule it leaves
process_docking_request(dp, m) ==
    IF Entry(m) # NoResult
    THEN [result |-> Entry(m), ports |-> dp]
    ELSE CandidateSearch(dp, m, parse_time(m.start_time),
                         parse_time(m.end_time),
                         PORT_RULES[m.requested_port].can_dock, 1)

\* ------------------------------------------------------------------------
\* app.py: clear_schedule
\* ------------------------------------------------------------------------
\* the clearing loop stopping one key short
RECURSIVE ClearFrom_SkipLast(_, _)
ClearFrom_SkipLast(dp, i) ==
    IF i >= Len(PortOrder) THEN dp
    ELSE ClearFrom_SkipLast([dp EXCEPT ![PortOrder[i]] = <<>>], i + 1)

\* the loop "for port in DOCKING_PORTS: DOCKING_PORTS[port] = []", from the
\* i-th key on
RECURSIVE ClearFrom(_, _)
ClearFrom(dp, i) ==
    IF i > Len(PortOrder) THEN dp
    ELSE ClearFrom([dp EXCEPT ![PortOrder[i]] = <<>>], i + 1)

ClearAll(dp) == ClearFrom(dp, 1)

Cleared == [status |-> "cleared", assigned_port |-> NoPort, reason |-> ""]

\* ------------------------------------------------------------------------
\* State
\* ------------------------------------------------------------------------
VARIABLES
    DOCKING_PORTS,   \* port -> sequence of stored missions
    mission,         \* Spec: the record the running handler was called with
    result,          \* Spec: what the running handler returns
    pc,              \* SpecConc: where each handler thread stands
    req,             \* SpecConc: the mission of each request thread
    idx,             \* SpecConc: position of its loop over compatible_ports
    ret,             \* SpecConc: what its process_docking_request returned
    clr,             \* SpecConc: position of clear_schedule's loop
    schedule0,       \* SpecConc: the schedule when the threads started
    rd,              \* SpecRead: position of serialize_schedule's loop
    dump             \* SpecRead: what serialize_schedule has collected

seqVars == <<mission, result>>
readVars == <<rd, dump>>
concVars == <<pc, req, idx, ret, clr, schedule0, readVars>>
vars == <<DOCKING_PORTS, mission, result, pc, req, idx, ret, clr, schedule0,
          rd, dump>>

EmptySchedule == [p \in Ports |-> <<>>]

NoMission ==
    [mission_id |-> "", requested_port |-> NoPort, start_time |-> Garbage,
     end_time |-> Garbage, team |-> "", refueling_required |-> FALSE]
RECURSIVE SumLen(_, _)
SumLen(dp, i) ==
    IF i > Len(PortOrder) THEN 0 ELSE Len(dp[PortOrder[i]]) + SumLen(dp, i + 1)
Stored(dp) == SumLen(dp, 1)

\* ------------------------------------------------------------------------
\* Spec: the handlers run one at a time
\* ------------------------------------------------------------------------
Workers == {"w1", "w2"}
WorkerId == [w \in Workers |-> IF w = "w1" THEN "M1" ELSE "M2"]

ConcIdle ==
    /\ pc = [w \in Workers |-> "idle"]
    /\ req = [w \in Workers |-> NoMission]
    /\ idx = [w \in Workers |-> 1]
    /\ ret = [w \in Workers |-> NoResult]
    /\ clr = 1
    /\ rd = 1
    /\ dump = EmptySchedule

Init ==
    /\ DOCKING_PORTS = EmptySchedule
    /\ mission = NoMission
    /\ result = NoResult
    /\ ConcIdle
    /\ schedule0 = EmptySchedule

\* process_mission_endpoint, from the call of process_docking_request to
\* its return value: one call, run to completion
ProcessMission ==
    /\ result = NoResult
    /\ Stored(DOCKING_PORTS) < MaxMissions
    /\ \E m \in Requests :
        LET out == process_docking_request(DOCKING_PORTS, m)
        IN  /\ mission' = m
            /\ result' = out.result
            /\ DOCKING_PORTS' = out.ports
    /\ UNCHANGED concVars

\* the clear_schedule handler, up to its return value: run to completion
ClearSchedule ==
    /\ result = NoResult
    /\ DOCKING_PORTS' = ClearAll(DOCKING_PORTS)
    /\ mission' = NoMission
    /\ result' = Cleared
    /\ UNCHANGED concVars

\* the handler has sent its response: its locals are gone, the schedule stays
Respond ==
    /\ result # NoResult
    /\ mission' = NoMission
    /\ result' = NoResult
    /\ UNCHANGED <<DOCKING_PORTS, concVars>>

Next == ProcessMission \/ ClearSchedule \/ Respond

Spec == Init /\ [][Next]_vars

\* ------------------------------------------------------------------------
\* SpecConc: the development server handles each request in a thread of its
\* own (app.run, threaded by default); no handler takes a lock.  Two
\* request threads and one clear_schedule thread run one call each.  A
\* thread is pre-empted between the calls it makes: between two
\* is_port_free calls, between is_port_free and assign_port, between two
\* assignments of clear_schedule's loop.
\* ------------------------------------------------------------------------
ConcRequests ==
    {m \in Requests :
        /\ m.start_time.text = "iso" /\ m.end_time.text = "iso"
        /\ m.start_time.instant < m.end_time.instant
        /\ m.end_time.instant <= ConcMaxTime}

\* schedules left by at most one earlier request
InitSchedules ==
    {process_docking_request(EmptySchedule, m).ports :
        m \in {r \in ConcRequests : r.mission_id = "M1"}}
    \cup {EmptySchedule}

InitConc ==
    /\ DOCKING_PORTS \in InitSchedules
    /\ schedule0 = DOCKING_PORTS
    /\ mission = NoMission
    /\ result = NoResult
    /\ ConcIdle

CompatiblePorts(w) == PORT_RULES[req[w].requested_port].can_dock
Candidate(w) == CompatiblePorts(w)[idx[w]]

\* lines 51-65 of process_docking_request: no shared state is read
Call(w) ==
    /\ pc[w] = "idle"
    /\ \E m \in ConcRequests :
        /\ m.mission_id = WorkerId[w]
        /\ req' = [req EXCEPT ![w] = m]
        /\ IF Entry(m) # NoResult
           THEN /\ ret' = [ret EXCEPT ![w] = Entry(m)]
                /\ pc' = [pc EXCEPT ![w] = "done"]
           ELSE /\ pc' = [pc EXCEPT ![w] = "search"]
                /\ ret' = ret
    /\ UNCHANGED <<DOCKING_PORTS, seqVars, idx, clr, schedule0, readVars>>

\* one is_port_free call of the loop, and the loop's next move
Check(w) ==
    /\ pc[w] = "search"
    /\ IF is_port_free(DOCKING_PORTS, Candidate(w),
                       parse_time(req[w].start_time),
                       parse_time(req[w].end_time))
       THEN /\ pc' = [pc EXCEPT ![w] = "assign"]
            /\ UNCHANGED <<idx, ret>>
       ELSE IF idx[w] < Len(CompatiblePorts(w))
       THEN /\ idx' = [idx EXCEPT ![w] = @ + 1]
            /\ UNCHANGED <<pc, ret>>
       ELSE /\ ret' = [ret EXCEPT ![w] = Rejected(NoPortReason)]
            /\ pc' = [pc EXCEPT ![w] = "done"]
            /\ idx' = idx
    /\ UNCHANGED <<DOCKING_PORTS, seqVars, req, clr, schedule0, readVars>>

\* assign_port and the return of "accepted"
Assign(w) ==
    /\ pc[w] = "assign"
    /\ DOCKING_PORTS' =
          assign_port(DOCKING_PORTS, Candidate(w),
                      StoredMission(req[w], parse_time(req[w].start_time),
                                    parse_time(req[w].end_time)))
    /\ ret' = [ret EXCEPT ![w] = Accepted(Candidate(w))]
    /\ pc' = [pc EXCEPT ![w] = "done"]
    /\ UNCHANGED <<seqVars, req, idx, clr, schedule0, readVars>>

\* one assignment DOCKING_PORTS[port] = [] of clear_schedule's loop
ClearStep ==
    /\ clr <= Len(PortOrder)
    /\ DOCKING_PORTS' = [DOCKING_PORTS EXCEPT ![PortOrder[clr]] = <<>>]
    /\ clr' = clr + 1
    /\ UNCHANGED <<seqVars, pc, req, idx, ret, schedule0, readVars>>

NextConc == (\E w \in Workers : Call(w) \/ Check(w) \/ Assign(w)) \/ ClearStep

SpecConc == InitConc /\ [][NextConc]_vars

\* ------------------------------------------------------------------------
\* SpecRead: a /api/docking-status thread (serialize_schedule) runs beside
\* a clear_schedule thread, on a schedule left by at most two earlier
\* requests.  serialize_schedule is pre-empted between two ports of its
\* loop over DOCKING_PORTS.items().
\* ------------------------------------------------------------------------
\* datetime.isoformat() + 'Z'
isoformat(t) == IsoString(t)

\* one element of serialize_schedule's list comprehension
Serialized(m) ==
    [mission_id |-> m.mission_id, start_time |-> isoformat(m.start_time),
     end_time |-> isoformat(m.end_time), team |-> m.team]

SerializedList(missions) ==
    [k \in 1..Len(missions) |-> Serialized(missions[k])]

ReadSchedules ==
    {process_docking_request(s, m).ports :
        s \in InitSchedules, m \in {r \in ConcRequests : r.mission_id = "M2"}}
    \cup InitSchedules

InitRead ==
    /\ DOCKING_PORTS \in ReadSchedules
    /\ schedule0 = DOCKING_PORTS
    /\ mission = NoMission
    /\ result = NoResult
    /\ ConcIdle

\* serialized[port] = [...] for one port of the loop
ReadStep ==
    /\ rd <= Len(PortOrder)
    /\ dump' = [dump EXCEPT ![PortOrder[rd]] =
                    SerializedList(DOCKING_PORTS[PortOrder[rd]])]
    /\ rd' = rd + 1
    /\ UNCHANGED <<DOCKING_PORTS, seqVars, pc, req, idx, ret, clr, schedule0>>

NextRead == ClearStep \/ ReadStep

SpecRead == InitRead /\ [][NextRead]_vars

\* ------------------------------------------------------------------------
\* SpecProbe: one process_docking_request call, run to completion, on a
\* schedule left by at most two earlier calls.
\* ------------------------------------------------------------------------
ProbeSeeds(id) ==
    {m \in Requests :
        /\ m.mission_id = id
        /\ m.requested_port \in Ports
        /\ ~m.refueling_required
        /\ m.start_time.text = "iso" /\ m.end_time.text = "iso"
        /\ m.start_time.instant <= ProbeMaxTime
        /\ m.end_time.instant <= ProbeMaxTime}

ProbeSchedules1 ==
    {process_docking_request(EmptySchedule, m).ports : m \in ProbeSeeds("M1")}
    \cup {EmptySchedule}

ProbeSchedules ==
    {process_docking_request(s, m).ports :
        s \in ProbeSchedules1, m \in ProbeSeeds("M2")}
    \cup ProbeSchedules1

InitProbe ==
    /\ DOCKING_PORTS \in ProbeSchedules
    /\ schedule0 = DOCKING_PORTS
    /\ mission = NoMission
    /\ result = NoResult
    /\ ConcIdle

\* process_mission_endpoint's call of process_docking_request
ServeMission ==
    /\ result = NoResult
    /\ \E m \in Requests :
        LET out == process_docking_request(DOCKING_PORTS, m)
        IN  /\ mission' = m
            /\ result' = out.result
            /\ DOCKING_PORTS' = out.ports
    /\ UNCHANGED concVars

SpecProbe == InitProbe /\ [][ServeMission]_vars

\* ------------------------------------------------------------------------
\* SpecPair: two process_docking_request calls with start < end, one after
\* the other, each run to completion, on a schedule left by at most two
\* earlier calls.
\* ------------------------------------------------------------------------
PairRequests(w) ==
    {m \in Requests :
        /\ m.mission_id = WorkerId[w]
        /\ m.start_time.text = "iso" /\ m.end_time.text = "iso"
        /\ m.start_time.instant < m.end_time.instant
        /\ m.end_time.instant <= ProbeMaxTime}

Serve(w) ==
    /\ pc[w] = "idle"
    /\ \E m \in PairRequests(w) :
        LET out == process_docking_request(DOCKING_PORTS, m)
        IN  /\ req' = [req EXCEPT ![w] = m]
            /\ ret' = [ret EXCEPT ![w] = out.result]
            /\ DOCKING_PORTS' = out.ports
    /\ pc' = [pc EXCEPT ![w] = "done"]
    /\ UNCHANGED <<seqVars, idx, clr, schedule0, readVars>>

ServeFirst == Serve("w1")
ServeSecond == pc["w1"] = "done" /\ Serve("w2")

NextPair == ServeFirst \/ ServeSecond

SpecPair == InitProbe /\ [][NextPair]_vars

\* ------------------------------------------------------------------------
\* Properties
\* ------------------------------------------------------------------------
\* the half-open overlap test on two windows
Overlap(s1, e1, s2, e2) == ~(e1 <= s2 \/ s1 >= e2)

\* some mission stored on port p of dp overlaps the window [s, e)
Busy(dp, p, s, e) ==
    \E k \in 1..Len(dp[p]) :
        Overlap(s, e, dp[p][k].start_time, dp[p][k].end_time)

PairwiseDisjoint(dp) ==
    \A p \in Ports : \A i, j \in 1..Len(dp[p]) :
        i # j => ~Overlap(dp[p][i].start_time, dp[p][i].end_time,
                          dp[p][j].start_time, dp[p][j].end_time)

\* a process_docking_request call has just returned (Spec)
Returned == result.status \in {"accepted", "rejected", "error"}
ReturnedNext == result'.status \in {"accepted", "rejected", "error"}

Parses(m) ==
    parse_time(m.start_time) # ValueError /\ parse_time(m.end_time) # ValueError

\* C1: with the handlers run one at a time, no two distinct missions stored
\* on the same port overlap under the test not (e1 <= s2 or s1 >= e2).
C1_NoOverlap ==
    \A p \in Ports : \A i, j \in 1..Len(DOCKING_PORTS[p]) :
        i # j =>
            LET a == DOCKING_PORTS[p][i]
                b == DOCKING_PORTS[p][j]
            IN  (a.end_time <= b.start_time \/ a.start_time >= b.end_time)

\* two missions on one port, the second accepted after the check against
\* the first
C1_Witness ==
    /\ result.status = "accepted"
    /\ Len(DOCKING_PORTS[result.assigned_port]) = 2
    /\ DOCKING_PORTS[result.assigned_port][1].start_time
         < DOCKING_PORTS[result.assigned_port][1].end_time
    /\ DOCKING_PORTS[result.assigned_port][2].start_time
         < DOCKING_PORTS[result.assigned_port][2].end_time

\* C2: with concurrent callers the check and the commit on a port are
\* atomic: no two requests with overlapping windows both find the port free
\* and both commit to it, so no port ever holds two overlapping missions.
C2_NoOverlapConcurrent == PairwiseDisjoint(DOCKING_PORTS)

\* C3: an accepted request with refueling_required is assigned a port that
\* has refuel capability.
C3_RefuelingGetsRefuelPort ==
    (result.status = "accepted" /\ mission.refueling_required)
    => PORT_RULES[result.assigned_port].refuel

\* C4: a request (with timestamps that parse) that requires refueling and
\* names a known port without refuel capability is rejected with the
\* refueling reason whatever the schedule holds, and the schedule is left
\* unchanged.
C4_RefuelingGatePrecedence ==
    [][(/\ ReturnedNext
        /\ Parses(mission')
        /\ mission'.refueling_required
        /\ mission'.requested_port \in Ports
        /\ ~PORT_RULES[mission'.requested_port].refuel)
       => (/\ result' = Rejected(RefuelReason)
           /\ DOCKING_PORTS' = DOCKING_PORTS)]_vars

\* the gate rejects while every port is empty, and while the requested port
\* is occupied
C4_Witness ==
    /\ result = Rejected(RefuelReason)
    /\ mission.requested_port = "A2"
    /\ DOCKING_PORTS = EmptySchedule

\* C5: an accepted request is assigned the first port of the requested
\* port's can_dock list on which no stored mission overlaps its window; a
\* free requested port is the one assigned.
C5_FirstFit ==
    [][(result'.status = "accepted")
       => LET compatible == PORT_RULES[mission'.requested_port].can_dock
              s == parse_time(mission'.start_time)
              e == parse_time(mission'.end_time)
          IN  /\ \E i \in 1..Len(compatible) :
                   /\ result'.assigned_port = compatible[i]
                   /\ ~Busy(DOCKING_PORTS, compatible[i], s, e)
                   /\ \A j \in 1..(i - 1) :
                        Busy(DOCKING_PORTS, compatible[j], s, e)
              /\ (~Busy(DOCKING_PORTS, mission'.requested_port, s, e)
                    => result'.assigned_port = mission'.requested_port)]_vars

\* a request that fell through to the second candidate
C5_Witness ==
    /\ result.status = "accepted"
    /\ mission.requested_port = "A2"
    /\ result.assigned_port = "B1"
    /\ Len(DOCKING_PORTS["A2"]) = 1

\* C6: a request with start_time >= end_time ends in a failure that is no
\* scheduling result: it is neither accepted nor rejected.
C6_MalformedIntervalFails ==
    (/\ Returned
     /\ Parses(mission)
     /\ parse_time(mission.start_time) >= parse_time(mission.end_time))
    => result.status = "error"

\* C7: a call that returns "accepted" appends one record to the assigned
\* port and leaves the other ports as they were; a call that returns a
\* rejection or raises leaves every port as it was.
C7_NoPartialCommit ==
    [][/\ (result'.status = "accepted")
          => /\ result'.assigned_port \in Ports
             /\ Len(DOCKING_PORTS'[result'.assigned_port])
                  = Len(DOCKING_PORTS[result'.assigned_port]) + 1
             /\ SubSeq(DOCKING_PORTS'[result'.assigned_port], 1,
                       Len(DOCKING_PORTS[result'.assigned_port]))
                  = DOCKING_PORTS[result'.assigned_port]
             /\ \A p \in Ports \ {result'.assigned_port} :
                  DOCKING_PORTS'[p] = DOCKING_PORTS[p]
       /\ (result'.status \in {"rejected", "error"})
          => DOCKING_PORTS' = DOCKING_PORTS]_vars

\* an accepted request on a schedule that already held a mission elsewhere
C7_Witness ==
    /\ result.status = "accepted"
    /\ \E p \in Ports \ {result.assigned_port} : Len(DOCKING_PORTS[p]) = 1

\* C8: a request whose requested_port is no configured port ends in a
\* failure, for either value of refueling_required; it is not accepted and
\* the schedule is left unchanged.
C8_UnknownPortFails ==
    [][(ReturnedNext /\ mission'.requested_port \notin Ports)
       => (/\ result'.status = "error"
           /\ DOCKING_PORTS' = DOCKING_PORTS)]_vars

\* an unknown port, not requiring refueling, while every port is free
C8_Witness ==
    /\ result = Raised("KeyError")
    /\ mission.requested_port = UnknownPort
    /\ ~mission.refueling_required
    /\ DOCKING_PORTS = EmptySchedule

\* C9: clear_schedule leaves every port empty and the same port keys; a
\* second clear leaves that state as it is, and a clear of an empty
\* schedule changes nothing.
C9_ClearIdempotent ==
    [][(result'.status = "cleared")
       => (/\ \A p \in Ports : DOCKING_PORTS'[p] = <<>>
           /\ DOMAIN DOCKING_PORTS' = DOMAIN DOCKING_PORTS
           /\ ClearAll(DOCKING_PORTS') = DOCKING_PORTS'
           /\ (DOCKING_PORTS = EmptySchedule
                 => DOCKING_PORTS' = DOCKING_PORTS))]_vars

\* a clear has just returned
C9_Witness ==
    /\ result = Cleared
    /\ DOCKING_PORTS = EmptySchedule

\* the two serial orders of one request m and one clear on the schedule dp:
\* the request's return value and the schedule left
ClearThenRequest(dp, m) ==
    LET out == process_docking_request(ClearAll(dp), m)
    IN  <<out.result, out.ports>>
RequestThenClear(dp, m) ==
    LET out == process_docking_request(dp, m)
    IN  <<out.result, ClearAll(out.ports)>>

\* C10: a clear and a concurrent request end as one of their two serial
\* orders would: same return value of the request, same schedule.
C10_ClearSerializable ==
    (pc["w1"] = "done" /\ clr > Len(PortOrder) /\ pc["w2"] = "idle")
    => <<ret["w1"], DOCKING_PORTS>> \in
          {ClearThenRequest(schedule0, req["w1"]),
           RequestThenClear(schedule0, req["w1"])}

\* C11: a schedule dump taken while clear_schedule runs never shows one
\* port already reset to empty while another port still shows its
\* missions of before the clear.
C11_DumpNotTorn ==
    (rd > Len(PortOrder))
    => ~(\E p, q \in Ports :
            /\ schedule0[p] # <<>> /\ dump[p] = <<>>
            /\ schedule0[q] # <<>> /\ dump[q] # <<>>)

\* a request that gets past parse_time, the PORT_RULES lookups and
\* can_refuel
PassesGate(m) ==
    /\ Parses(m)
    /\ m.requested_port \in Ports
    /\ (m.refueling_required => PORT_RULES[m.requested_port].refuel)

Touches(dp, p, s, e) ==
    \E k \in 1..Len(dp[p]) :
        s = dp[p][k].end_time \/ e = dp[p][k].start_time

\* C13: a request with start < end that passes the gate, whose window
\* touches missions of the requested port at endpoints and overlaps none
\* of them, is accepted on the requested port.
C13_AdjacentAccepted ==
    [][(/\ ReturnedNext
        /\ PassesGate(mission')
        /\ parse_time(mission'.start_time) < parse_time(mission'.end_time)
        /\ Touches(DOCKING_PORTS, mission'.requested_port,
                   parse_time(mission'.start_time),
                   parse_time(mission'.end_time))
        /\ ~Busy(DOCKING_PORTS, mission'.requested_port,
                 parse_time(mission'.start_time),
                 parse_time(mission'.end_time)))
       => result' = Accepted(mission'.requested_port)]_vars

\* a mission accepted right after the one stored before it
C13_Witness ==
    /\ result = Accepted(mission.requested_port)
    /\ Len(DOCKING_PORTS[mission.requested_port]) = 2
    /\ LET a == DOCKING_PORTS[mission.requested_port][1]
           b == DOCKING_PORTS[mission.requested_port][2]
       IN  a.start_time < a.end_time /\ a.end_time = b.start_time
           /\ b.start_time < b.end_time

\* the scenario's requests; instants count the hours from 10:00
ScenarioM1 ==
    [mission_id |-> "M1", requested_port |-> "A1",
     start_time |-> IsoString(0), end_time |-> IsoString(2),
     team |-> "T1", refueling_required |-> TRUE]
ScenarioM2 ==
    [mission_id |-> "M2", requested_port |-> "A1",
     start_time |-> IsoString(1), end_time |-> IsoString(3),
     team |-> "T1", refueling_required |-> FALSE]
ScenarioAfterM1 ==
    [EmptySchedule EXCEPT !["A1"] =
        <<[mission_id |-> "M1", start_time |-> 0, end_time |-> 2,
           team |-> "T1"]>>]
ScenarioAfterM2 ==
    [ScenarioAfterM1 EXCEPT !["B1"] =
        <<[mission_id |-> "M2", start_time |-> 1, end_time |-> 3,
           team |-> "T1"]>>]

\* C14: on the empty schedule M1 is accepted at A1; M2 processed next is
\* accepted at B1, and A1 holds M1 alone, B1 holds M2 alone, A2 is empty.
C14_Scenario ==
    [][/\ (mission' = ScenarioM1 /\ DOCKING_PORTS = EmptySchedule)
          => (result' = Accepted("A1") /\ DOCKING_PORTS' = ScenarioAfterM1)
       /\ (mission' = ScenarioM2 /\ DOCKING_PORTS = ScenarioAfterM1)
          => (result' = Accepted("B1") /\ DOCKING_PORTS' = ScenarioAfterM2)]_vars

\* M2 has just been processed after M1
C14_Witness ==
    /\ mission = ScenarioM2
    /\ result = Accepted("B1")
    /\ DOCKING_PORTS = ScenarioAfterM2

\* C15 (as stated): is_port_free(port, t, t) is true for every port, every
\* schedule and every instant t.
C15_EmptyWindowAlwaysFree ==
    \A p \in Ports : \A t \in Instants :
        is_port_free(DOCKING_PORTS, p, t, t)

\* C15 (amended): is_port_free(port, t, t) is true exactly when no mission
\* stored on the port has start < t < end.
C15_EmptyWindowFreeUnlessInside ==
    \A p \in Ports : \A t \in Instants :
        is_port_free(DOCKING_PORTS, p, t, t)
        <=> ~(\E k \in 1..Len(DOCKING_PORTS[p]) :
                 /\ DOCKING_PORTS[p][k].start_time < t
                 /\ t < DOCKING_PORTS[p][k].end_time)

\* a request with start = end found B1 occupied by a mission around it
C15_Witness ==
    /\ result.status = "rejected"
    /\ mission.requested_port = "B1"
    /\ parse_time(mission.start_time) = parse_time(mission.end_time)
    /\ Len(DOCKING_PORTS["B1"]) = 1
    /\ DOCKING_PORTS["B1"][1].start_time < parse_time(mission.start_time)
    /\ parse_time(mission.start_time) < DOCKING_PORTS["B1"][1].end_time

\* C16: a request that passes the gate is rejected with the no-free-port
\* reason exactly when every port of the requested port's can_dock list
\* holds a mission that overlaps its window; with a free candidate it is
\* accepted.
C16_RejectedIffAllBusy ==
    (Returned /\ PassesGate(mission))
    => LET compatible == PORT_RULES[mission.requested_port].can_dock
           s == parse_time(mission.start_time)
           e == parse_time(mission.end_time)
           allBusy == \A i \in 1..Len(compatible) :
                         Busy(schedule0, compatible[i], s, e)
       IN  /\ (result = Rejected(NoPortReason)) <=> allBusy
           /\ ~allBusy => result.status = "accepted"

\* an A1 request rejected with A1 and B1 occupied while A2 is empty
C16_Witness ==
    /\ result = Rejected(NoPortReason)
    /\ mission.requested_port = "A1"
    /\ schedule0["A1"] # <<>> /\ schedule0["B1"] # <<>>
    /\ schedule0["A2"] = <<>>

IsPrefix(a, b) == Len(a) <= Len(b) /\ SubSeq(b, 1, Len(a)) = a

\* C17: a process_docking_request call leaves every port's sequence with
\* its former content as a prefix; a step that removes, changes or moves a
\* stored mission is a clear_schedule.
C17_AppendOnly ==
    [][/\ ReturnedNext
          => \A p \in Ports : IsPrefix(DOCKING_PORTS[p], DOCKING_PORTS'[p])
       /\ (\E p \in Ports : ~IsPrefix(DOCKING_PORTS[p], DOCKING_PORTS'[p]))
          => result' = Cleared]_vars

\* a mission appended behind a different one
C17_Witness ==
    /\ result.status = "accepted"
    /\ Len(DOCKING_PORTS[result.assigned_port]) = 2
    /\ DOCKING_PORTS[result.assigned_port][2]
         = StoredMission(mission, parse_time(mission.start_time),
                         parse_time(mission.end_time))
    /\ DOCKING_PORTS[result.assigned_port][1]
         # DOCKING_PORTS[result.assigned_port][2]

\* C18: the record stored for an accepted request has the fields
\* mission_id, start_time, end_time, team and no other, with the request's
\* values; a request that differs only in requested_port or
\* refueling_required and is accepted on the same port leaves the same
\* record.
C18_StoredFields ==
    (result.status = "accepted")
    => LET p == result.assigned_port
           rec == DOCKING_PORTS[p][Len(DOCKING_PORTS[p])]
       IN  /\ DOMAIN rec = {"mission_id", "start_time", "end_time", "team"}
           /\ rec.mission_id = mission.mission_id
           /\ rec.start_time = parse_time(mission.start_time)
           /\ rec.end_time = parse_time(mission.end_time)
           /\ rec.team = mission.team
           /\ \A rp \in RequestPorts : \A rf \in BOOLEAN :
                LET other == [mission EXCEPT !.requested_port = rp,
                                             !.refueling_required = rf]
                    out == process_docking_request(schedule0, other)
                IN  out.result = Accepted(p) => out.ports = DOCKING_PORTS

\* a refueling request for A1 stored on B1
C18_Witness ==
    /\ result = Accepted("B1")
    /\ mission.requested_port = "A1"
    /\ mission.refueling_required
    /\ schedule0["B1"] # <<>>

\* team strings a request may carry besides those of Teams
OtherTeams == {"T2"}

\* C19: a request gets the same status, assigned port and reason whatever
\* its mission_id and team, also when its mission_id is one that a stored
\* mission already has.
C19_IdsIgnored ==
    Returned
    => \A id \in MissionIds : \A tm \in Teams \cup OtherTeams :
          process_docking_request(
              schedule0, [mission EXCEPT !.mission_id = id, !.team = tm]).result
          = result

\* a request accepted on the port that holds a mission of the same id
C19_Witness ==
    /\ result.status = "accepted"
    /\ Len(schedule0[result.assigned_port]) = 1
    /\ schedule0[result.assigned_port][1].mission_id = mission.mission_id
    /\ \E p \in Ports \ {result.assigned_port} : schedule0[p] # <<>>

\* the missions stored on port p of dp, as a set
StoredSet(dp, p) == {dp[p][k] : k \in 1..Len(dp[p])}

\* C20: two requests with start < end whose windows do not overlap get the
\* same results, and leave the same missions on every port, in either
\* order of processing.
C20_DisjointRequestsCommute ==
    (/\ pc["w1"] = "done" /\ pc["w2"] = "done"
     /\ ~Overlap(parse_time(req["w1"].start_time),
                 parse_time(req["w1"].end_time),
                 parse_time(req["w2"].start_time),
                 parse_time(req["w2"].end_time)))
    => LET second == process_docking_request(schedule0, req["w2"])
           first == process_docking_request(second.ports, req["w1"])
       IN  /\ ret["w1"] = first.result
           /\ ret["w2"] = second.result
           /\ \A p \in Ports :
                /\ StoredSet(DOCKING_PORTS, p) = StoredSet(first.ports, p)
                /\ Len(DOCKING_PORTS[p]) = Len(first.ports[p])

\* two adjacent requests for A1, both stored on A1
C20_Witness ==
    /\ pc["w1"] = "done" /\ pc["w2"] = "done"
    /\ ret["w1"] = Accepted("A1") /\ ret["w2"] = Accepted("A1")
    /\ parse_time(req["w2"].end_time) = parse_time(req["w1"].start_time)

====
